---- MODULE Spec2Model ----
(***************************************************************************)
(* PSG-Bunker web front-end (src/app.py): the in-memory login rate         *)
(* limiter, the /login handler, the session-gated read endpoints, logout   *)
(* and the signed-cookie session with its two-hour lifetime.               *)
(*                                                                         *)
(* Time is the value of time() in whole seconds.  A request is handled in  *)
(* one step: decorator, handler body and the saving of the session cookie. *)
(* Template rendering and jsonify are total (they never raise).            *)
(***************************************************************************)
EXTENDS Integers, Sequences, FiniteSets, TLC

\* ---------------------------------------------------------------- bounds
\* Last clock value of the fine-grained (rate limiter) runs.
MaxTime == 300
\* Last clock value of the coarse-grained (session lifetime) runs.
MaxLongTime == 9000

\* The clock's last value where a block is waited out.
MaxLateTime == 450
\* Largest total_hours of one subject record in the statistics runs.
MaxHours == 6
\* Longest attendance list in the statistics runs.
MaxSubjects == 2

\* Requests one address gets past the step-wise limiter before it stops
\* sending.
MaxRequests == 6

\* ------------------------------------------------------ program constants
\* @rate_limit(max_attempts=5, time_window=300) on login
MAX_ATTEMPTS == 5
TIME_WINDOW == 300
\* app.config['PERMANENT_SESSION_LIFETIME'] = timedelta(hours=2), in seconds
PERMANENT_SESSION_LIFETIME == 7200

\* Client addresses (request.remote_addr).
IPs == {"10.0.0.1", "10.0.0.2"}

\* The address whose requests the single-client runs follow.
Client == "10.0.0.1"

\* Clock advances between requests.
ShortSteps == {150}
LongSteps == {3000}

\* ------------------------------------------------------------ characters
Digits == {"0", "1", "2", "3", "4", "5", "6", "7", "8", "9"}
Letters == {"A", "B", "C", "D", "I", "T", "a", "x"}
Whitespace == {" "}

\* str.strip(): drop leading and trailing whitespace
RECURSIVE LStrip(_)
LStrip(s) ==
    IF s # <<>> /\ Head(s) \in Whitespace THEN LStrip(Tail(s)) ELSE s

RECURSIVE RStrip(_)
RStrip(s) ==
    IF s # <<>> /\ s[Len(s)] \in Whitespace
    THEN RStrip(SubSeq(s, 1, Len(s) - 1))
    ELSE s

Strip(s) == RStrip(LStrip(s))

AllIn(s, from, to, class) == \A k \in from..to : s[k] \in class

\* re.match(r'^\d{2}[A-Za-z]{1,4}\d{1,4}$', rollno)
RollMatch(s) ==
    \E i \in 1..4 : \E j \in 1..4 :
        /\ Len(s) = 2 + i + j
        /\ AllIn(s, 1, 2, Digits)
        /\ AllIn(s, 3, 2 + i, Letters)
        /\ AllIn(s, 3 + i, 2 + i + j, Digits)

\* -------------------------------------------------------------- requests
\* The rollno field of a /login request: a string, absent (the handler's
\* default ''), or a JSON value that is not a string (number, null, list).
Roll(chars) == [kind |-> "str", chars |-> chars]
RollAbsent == [kind |-> "absent", chars |-> <<>>]
RollNonString == [kind |-> "nonstr", chars |-> <<>>]

Request(is_json, roll, password, remember_me) ==
    [is_json |-> is_json, roll |-> roll, password |-> password,
     remember_me |-> remember_me]

\* Requests whose roll number matches the pattern once stripped.
WellFormedRequests ==
    { Request(FALSE, Roll(<<"2", "1", "I", "T", "0", "6", "6">>), "secret", FALSE),
      Request(TRUE, Roll(<<" ", "1", "9", "A", "1", " ">>), "secret", TRUE) }

\* Requests with a field missing or empty.
IncompleteRequests ==
    { Request(TRUE, Roll(<<" ", " ">>), "secret", FALSE),
      Request(FALSE, Roll(<<"2", "1", "I", "T", "0", "6", "6">>), "", TRUE) }

\* Requests whose roll number is no match: no trailing digits, a fifth
\* letter, an inner blank, no string.
MalformedRequests ==
    { Request(FALSE, Roll(<<"2", "1", "I", "T">>), "secret", FALSE),
      Request(TRUE, Roll(<<"2", "1", "A", "B", "C", "D", "x", "1">>), "secret", FALSE),
      Request(FALSE, Roll(<<"2", "1", " ", "I", "T", "1">>), "secret", TRUE),
      Request(TRUE, RollNonString, "secret", FALSE) }

LoginRequests == WellFormedRequests \cup IncompleteRequests \cup MalformedRequests

NoRequest ==
    [is_json |-> FALSE, roll |-> RollAbsent, password |-> "",
     remember_me |-> FALSE]

\* ---------------------------------------------------- collaborator results
\* What bunker_mod gives one login: return_attendance returns a message
\* string or a tuple or raises; get_course_plan, data_json and return_cgpa
\* return their value or raise.  Subject records carry total_hours and
\* total_present, total_present <= total_hours.
Subject(h, p) == [total_hours |-> h, total_present |-> p]

Calls == {"return_attendance", "get_course_plan", "data_json", "return_cgpa"}

Outcome(kind, msg, raises, attendance_data, cgpa_data, course_plan) ==
    [kind |-> kind, msg |-> msg, raises |-> raises,
     attendance_data |-> attendance_data, cgpa_data |-> cgpa_data,
     course_plan |-> course_plan]

Success(attendance_data, cgpa_data, course_plan) ==
    Outcome("tuple", "", "none", attendance_data, cgpa_data, course_plan)

NoOutcome == Outcome("none", "", "none", <<>>, {}, {})

Outcomes ==
    { Success(<<Subject(60, 30), Subject(40, 40)>>, {<<"cgpa", "8">>},
              {<<"19A101", "Maths">>}),
      Success(<<>>, {}, {}),
      Outcome("str", "Invalid credentials", "none", <<>>, {}, {}) }
    \cup { Outcome("raise", "", c, <<>>, {}, {}) : c \in Calls }

SubjectRecords ==
    { Subject(h, p) : h \in 0..MaxHours, p \in 0..MaxHours } \cap
    { r \in [total_hours : 0..MaxHours, total_present : 0..MaxHours] :
        r.total_present <= r.total_hours }

RECURSIVE ListsUpTo(_)
ListsUpTo(n) ==
    IF n = 0 THEN {<<>>}
    ELSE LET shorter == ListsUpTo(n - 1)
         IN shorter \cup
            { Append(l, r) : l \in {x \in shorter : Len(x) = n - 1},
                             r \in SubjectRecords }

WideOutcomes == { Success(l, {}, {}) : l \in ListsUpTo(MaxSubjects) }

\* ----------------------------------------------------------------- state
VARIABLES
    now,             \* time(): the clock, in seconds
    login_attempts,  \* login_attempts: address -> list of timestamps
    session,         \* payload of the client's signed session cookie
    issued,          \* the timestamp signed into that cookie
    resp,            \* the last request and the response it got
    failed,          \* history: times of the address's last failed logins
    loginAt,         \* history: time of the last successful login, or -1
    era,             \* history: "new", "in" (logged in), "out" (logged out)
    stored,          \* history: what the last successful login stored
    inflight,        \* the requests inside rate_limit, by worker thread
    letThrough       \* history: timestamps of the requests the step-wise
                     \* limiter let through, by address

vars ==
    <<now, login_attempts, session, issued, resp, failed, loginAt, era, stored,
      inflight, letThrough>>

\* Worker threads of the server (app.run serves each request in a thread).
Threads == {1, 2}

IdleThread ==
    [pc |-> "idle", ip |-> "none", t |-> 0, kept |-> <<>>, rq |-> NoRequest]

\* The session dictionary: the keys present and their values (a key that
\* is absent holds its type's empty value).
Keys == {"rollno", "attendance_data", "cgpa_data", "course_plan", "_permanent"}

EmptySession ==
    [keys |-> {}, rollno |-> <<>>, attendance_data |-> <<>>,
     cgpa_data |-> {}, course_plan |-> {}, permanent |-> FALSE]

NoStats ==
    [total_days |-> 0, attended_days |-> 0, pct_num |-> 0, pct_den |-> 1,
     need_days |-> 0, bunkable_days |-> 0]

Response(route, ip, status) ==
    [route |-> route, ip |-> ip, status |-> status, location |-> "",
     gate |-> "none", limiter |-> "none", called |-> {}, msg |-> "",
     data |-> {}, stats |-> NoStats, req |-> NoRequest]

Init ==
    /\ now = 0
    /\ login_attempts = [ip \in IPs |-> <<>>]
    /\ session = EmptySession
    /\ issued = 0
    /\ resp = Response("none", "none", 0)
    /\ failed = [ip \in IPs |-> <<>>]
    /\ loginAt = -1
    /\ era = "new"
    /\ stored = [cgpa_data |-> {}, course_plan |-> {}]
    /\ inflight = [th \in Threads |-> IdleThread]
    /\ letThrough = [ip \in IPs |-> <<>>]

\* ------------------------------------------------------- session cookie
\* The session the request sees (flask_session): the cookie's payload,
\* or an empty session once the cookie's signature is older than the
\* configured lifetime.
CookieExpired ==
    session.keys # {} /\ now - issued > PERMANENT_SESSION_LIFETIME

flask_session == IF CookieExpired THEN EmptySession ELSE session

\* The cookie after the response: an emptied session deletes it, a
\* modified or a permanent session is signed again with the current time,
\* anything else leaves the client's cookie as it is.
SavedCookie(s, modified) ==
    IF s.keys = {}
    THEN IF modified
         THEN [payload |-> EmptySession, issued |-> 0]
         ELSE [payload |-> session, issued |-> issued]
    ELSE IF modified \/ s.permanent
         THEN [payload |-> s, issued |-> now]
         ELSE [payload |-> session, issued |-> issued]

SaveSession(s, modified) ==
    /\ session' = SavedCookie(s, modified).payload
    /\ issued' = SavedCookie(s, modified).issued

\* --------------------------------------------------------- rate limiter
\* Faulty variant: old attempts are never dropped.
PrunedNever(list, t) == list

\* [attempt for attempt in login_attempts[ip] if attempt > now - time_window]
Pruned(list, t) == SelectSeq(list, LAMBDA a : a > t - TIME_WINDOW)

\* Faulty variant: the comparison is strict, one attempt too many passes.
ExceededLate(list) == Len(list) > MAX_ATTEMPTS

\* len(login_attempts[ip]) >= max_attempts
Exceeded(list) == Len(list) >= MAX_ATTEMPTS

\* Faulty variant: no timestamp is ever appended.
RecordedNever(list, t) == Pruned(list, t)

\* Faulty variant: the timestamp is appended before the check.
RecordedAlways(list, t) == Append(Pruned(list, t), t)

\* The list the limiter leaves for the address: pruned, and with the
\* current time appended unless the request is rejected.
Recorded(list, t) ==
    IF Exceeded(Pruned(list, t)) THEN Pruned(list, t)
    ELSE Append(Pruned(list, t), t)

\* ------------------------------------------------------- /login handler
CallOrder ==
    <<"return_attendance", "get_course_plan", "data_json", "return_cgpa">>

\* The collaborator calls made when `last` is the call that ends the run.
CalledUpTo(last) ==
    { CallOrder[k] : k \in { n \in 1..4 : \E m \in n..4 : CallOrder[m] = last } }

\* request.json.get('rollno', '').strip() / request.form.get(...).strip()
RollText(rq) == IF rq.roll.kind = "str" THEN Strip(rq.roll.chars) ELSE <<>>

Result(status, msg, s, modified, called) ==
    [status |-> status, msg |-> msg, sess |-> s, modified |-> modified,
     called |-> called]

\* Faulty variant: the roll number is stored without the data.
StoredRollOnly(s, rq, out) ==
    [keys |-> s.keys \cup {"rollno", "_permanent"},
     rollno |-> RollText(rq),
     attendance_data |-> s.attendance_data,
     cgpa_data |-> s.cgpa_data,
     course_plan |-> s.course_plan,
     permanent |-> rq.remember_me]

\* Lines 107-114: the four values and the permanence flag.
Stored(s, rq, out) ==
    [keys |-> s.keys \cup {"attendance_data", "cgpa_data", "course_plan",
                           "rollno", "_permanent"},
     rollno |-> RollText(rq),
     attendance_data |-> out.attendance_data,
     cgpa_data |-> out.cgpa_data,
     course_plan |-> out.course_plan,
     permanent |-> rq.remember_me]

\* Faulty variant: the session is written before the collaborator calls
\* are through.
AttemptLoginLeaky(rq, s, out) ==
    IF out.kind = "raise"
    THEN Result(500, "An internal error occurred. Please try again later.",
                Stored(s, rq, out), TRUE, CalledUpTo(out.raises))
    ELSE IF out.kind = "str"
    THEN Result(401, out.msg, s, FALSE, {"return_attendance"})
    ELSE Result(200, "Login successful", Stored(s, rq, out), TRUE, Calls)

\* Lines 89-129: the try block.
AttemptLogin(rq, s, out) ==
    IF out.kind = "raise"
    THEN Result(500, "An internal error occurred. Please try again later.",
                s, FALSE, CalledUpTo(out.raises))
    ELSE IF out.kind = "str"
    THEN Result(401, out.msg, s, FALSE, {"return_attendance"})
    ELSE Result(200, "Login successful", Stored(s, rq, out), TRUE, Calls)

\* Lines 64-129: the body of login().  A JSON rollno that is no string has
\* no strip(): the AttributeError is raised outside the try block and the
\* application's 500 handler answers.
LoginBody(rq, s, out) ==
    IF rq.roll.kind = "nonstr"
    THEN Result(500, "", s, FALSE, {})
    ELSE IF RollText(rq) = <<>> \/ rq.password = ""
    THEN Result(400, "Roll number and password are required", s, FALSE, {})
    ELSE IF ~RollMatch(RollText(rq))
    THEN Result(400, "Invalid roll number format.", s, FALSE, {})
    ELSE AttemptLogin(rq, s, out)

LastFive(list) ==
    IF Len(list) > MAX_ATTEMPTS THEN SubSeq(list, Len(list) - MAX_ATTEMPTS + 1, Len(list))
    ELSE list

\* Lines 36-40: the limiter's rejection of the request.
Rejected(ip, rq) ==
    /\ resp' = [Response("login", ip, 429) EXCEPT
                   !.limiter = "reject", !.req = rq,
                   !.msg = "Too many login attempts. Please try again later."]
    /\ SaveSession(flask_session, FALSE)
    /\ UNCHANGED <<failed, loginAt, era, stored>>

\* Line 45: f(*args, **kwargs), login() for a request the limiter let
\* through, and the saving of the session.
Answered(ip, rq, out) ==
    LET r == LoginBody(rq, flask_session, out)
    IN /\ resp' = [Response("login", ip, r.status) EXCEPT
                      !.limiter = "pass", !.req = rq,
                      !.msg = r.msg, !.called = r.called]
       /\ SaveSession(r.sess, r.modified)
       /\ failed' = IF r.status = 200 THEN failed
                    ELSE [failed EXCEPT ![ip] = LastFive(Append(@, now))]
       /\ loginAt' = IF r.status = 200 THEN now ELSE loginAt
       /\ era' = IF r.status = 200 THEN "in" ELSE era
       /\ stored' = IF r.status = 200
                    THEN [cgpa_data |-> out.cgpa_data,
                          course_plan |-> out.course_plan]
                    ELSE stored

\* Faulty variant: one list, the client's, serves every address.
LoginOneList(ip, rq, out) ==
    /\ login_attempts' = [login_attempts EXCEPT ![Client] = Recorded(@, now)]
    /\ IF Exceeded(Pruned(login_attempts[Client], now))
       THEN Rejected(ip, rq)
       ELSE Answered(ip, rq, out)
    /\ UNCHANGED <<now, inflight, letThrough>>

\* POST /login from address ip, handled without interruption:
\* rate_limit's decorated_function, then login(), then the saving of the
\* session.
Login(ip, rq, out) ==
    /\ login_attempts' = [login_attempts EXCEPT ![ip] = Recorded(@, now)]
    /\ IF Exceeded(Pruned(login_attempts[ip], now))
       THEN Rejected(ip, rq)
       ELSE Answered(ip, rq, out)
    /\ UNCHANGED <<now, inflight, letThrough>>

\* ---------------------------------------- rate limiter, statement by statement
\* The server handles each request in a thread of its own, so the statements
\* of decorated_function of two requests can interleave.  The requests sent:
ThreadRequests == { Request(TRUE, Roll(<<" ", " ">>), "secret", FALSE) }

\* Lines 28-29: the request of address ip reaches the limiter, which reads
\* the clock.
Arrive(th, ip, rq) ==
    /\ inflight[th].pc = "idle"
    /\ Len(letThrough[ip]) < MaxRequests
    /\ inflight' = [inflight EXCEPT
                       ![th] = [pc |-> "prune", ip |-> ip, t |-> now,
                                kept |-> <<>>, rq |-> rq]]
    /\ UNCHANGED <<now, login_attempts, session, issued, resp, failed, loginAt,
                   era, stored, letThrough>>

\* Line 32, right-hand side: the comprehension over the address's list.
ReadAttempts(th) ==
    /\ inflight[th].pc = "prune"
    /\ inflight' = [inflight EXCEPT
                       ![th].pc = "assign",
                       ![th].kept = Pruned(login_attempts[inflight[th].ip],
                                           inflight[th].t)]
    /\ UNCHANGED <<now, login_attempts, session, issued, resp, failed, loginAt,
                   era, stored, letThrough>>

\* Line 32, the assignment: the address's entry becomes the new list.
AssignAttempts(th) ==
    /\ inflight[th].pc = "assign"
    /\ login_attempts' = [login_attempts EXCEPT
                             ![inflight[th].ip] = inflight[th].kept]
    /\ inflight' = [inflight EXCEPT ![th].pc = "check"]
    /\ UNCHANGED <<now, session, issued, resp, failed, loginAt, era, stored,
                   letThrough>>

\* Lines 35-40: the length check on the address's list as it is now; a
\* request over the limit is answered 429.
CheckAttempts(th) ==
    /\ inflight[th].pc = "check"
    /\ IF Exceeded(login_attempts[inflight[th].ip])
       THEN /\ Rejected(inflight[th].ip, inflight[th].rq)
            /\ inflight' = [inflight EXCEPT ![th] = IdleThread]
       ELSE /\ inflight' = [inflight EXCEPT ![th].pc = "append"]
            /\ UNCHANGED <<session, issued, resp, failed, loginAt, era, stored>>
    /\ UNCHANGED <<now, login_attempts, letThrough>>

\* Line 43: the append to the address's list as it is now; the request is
\* past the limiter.
AppendAttempt(th) ==
    /\ inflight[th].pc = "append"
    /\ login_attempts' = [login_attempts EXCEPT
                             ![inflight[th].ip] = Append(@, inflight[th].t)]
    /\ letThrough' = [letThrough EXCEPT
                         ![inflight[th].ip] = Append(@, inflight[th].t)]
    /\ inflight' = [inflight EXCEPT ![th].pc = "handler"]
    /\ UNCHANGED <<now, session, issued, resp, failed, loginAt, era, stored>>

\* Line 45: login() answers the request.
RunHandler(th) ==
    /\ inflight[th].pc = "handler"
    /\ Answered(inflight[th].ip, inflight[th].rq, NoOutcome)
    /\ inflight' = [inflight EXCEPT ![th] = IdleThread]
    /\ UNCHANGED <<now, login_attempts, letThrough>>

\* ------------------------------------------------- session-gated routes
\* Faulty variant: the gate lets every request through.
GateOpenAlways(s) == TRUE

\* login_required: 'rollno' not in flask_session -> redirect('/')
GateOpen(s) == "rollno" \in s.keys

Redirect(route) ==
    [Response(route, "none", 302) EXCEPT !.location = "/", !.gate = "redirect"]

RECURSIVE SumHours(_)
SumHours(list) ==
    IF list = <<>> THEN 0 ELSE Head(list).total_hours + SumHours(Tail(list))

RECURSIVE SumPresent(_)
SumPresent(list) ==
    IF list = <<>> THEN 0 ELSE Head(list).total_present + SumPresent(Tail(list))

\* math.ceil(a / b) and int(a / b) for an integer a and b > 0
CeilDiv(a, b) == -((-a) \div b)

TruncDiv(a, b) == IF a >= 0 THEN a \div b ELSE -((-a) \div b)

\* overall_percentage < 75, the percentage being total_present /
\* total_hours * 100, or 0 when total_hours is 0.  (The float quotient of
\* two integers of this size compares with 75 as the exact quotient does.)
Below75(H, P) == IF H > 0 THEN 100 * P < 75 * H ELSE TRUE

\* Faulty variant: one session too few.
NeedDaysFloor(H, P) == (75 * H - 100 * P) \div 25 - 1

\* math.ceil((0.75 * total_hours - total_present) / 0.25): the operands are
\* multiples of 0.25, exact in binary floating point.
NeedDays(H, P) == CeilDiv(75 * H - 100 * P, 25)

\* Faulty variant: rounded up instead of truncated.
BunkableDaysCeil(H, P) == CeilDiv(100 * P - 75 * H, 75)

\* int((total_present - 0.75 * total_hours) / 0.75)
BunkableDays(H, P) == TruncDiv(100 * P - 75 * H, 75)

\* Lines 141-152 and 163-170.
Statistics(list) ==
    LET H == SumHours(list)
        P == SumPresent(list)
    IN [total_days |-> H,
        attended_days |-> P,
        pct_num |-> IF H > 0 THEN 100 * P ELSE 0,
        pct_den |-> IF H > 0 THEN H ELSE 1,
        need_days |-> IF Below75(H, P) THEN NeedDays(H, P) ELSE 0,
        bunkable_days |-> IF Below75(H, P) THEN 0 ELSE BunkableDays(H, P)]

\* Faulty variant: no check for empty attendance data.
AttendanceBodyNoCheck(s) ==
    [Response("attendance", "none", 200) EXCEPT
        !.gate = "pass", !.stats = Statistics(s.attendance_data)]

\* The handler bodies, given the session the request sees.
AttendanceBody(s) ==
    IF s.attendance_data = <<>>
    THEN [Response("attendance", "none", 404) EXCEPT
             !.gate = "pass", !.msg = "No attendance data available"]
    ELSE [Response("attendance", "none", 200) EXCEPT
             !.gate = "pass", !.stats = Statistics(s.attendance_data)]

\* Faulty variant: /cgpa answers 404 for an empty mapping.
CgpaBody404(s) ==
    IF s.cgpa_data = {}
    THEN [Response("cgpa", "none", 404) EXCEPT !.gate = "pass"]
    ELSE [Response("cgpa", "none", 200) EXCEPT
             !.gate = "pass", !.data = s.cgpa_data]

CgpaBody(s) ==
    [Response("cgpa", "none", 200) EXCEPT !.gate = "pass", !.data = s.cgpa_data]

\* Faulty variant: /courses answers with the CGPA mapping.
CoursesBodyCgpa(s) ==
    [Response("courses", "none", 200) EXCEPT
        !.gate = "pass", !.data = s.cgpa_data]

CoursesBody(s) ==
    [Response("courses", "none", 200) EXCEPT
        !.gate = "pass", !.data = s.course_plan]

DashboardBody(s) ==
    [Response("dashboard", "none", 200) EXCEPT !.gate = "pass"]

\* A GET on a gated route: the gate, the body, the saving of the session.
Gated(route, body) ==
    /\ resp' = IF GateOpen(flask_session) THEN body ELSE Redirect(route)
    /\ SaveSession(flask_session, FALSE)
    /\ UNCHANGED <<now, login_attempts, failed, loginAt, era, stored, inflight,
                   letThrough>>

GetAttendance == Gated("attendance", AttendanceBody(flask_session))

GetCgpa == Gated("cgpa", CgpaBody(flask_session))

GetCourses == Gated("courses", CoursesBody(flask_session))

Dashboard == Gated("dashboard", DashboardBody(flask_session))

\* Faulty variant: only the rollno key is removed.
ClearedKeepData(s) == [s EXCEPT !.keys = s.keys \ {"rollno"}]

\* flask_session.clear()
Cleared(s) == EmptySession

\* GET /logout
Logout ==
    /\ resp' = [Response("logout", "none", 302) EXCEPT !.location = "/"]
    /\ SaveSession(Cleared(flask_session), TRUE)
    /\ era' = "out"
    /\ UNCHANGED <<now, login_attempts, failed, loginAt, stored, inflight,
                   letThrough>>

\* GET /
Home ==
    /\ resp' = Response("home", "none", 200)
    /\ SaveSession(flask_session, FALSE)
    /\ UNCHANGED <<now, login_attempts, failed, loginAt, era, stored, inflight,
                   letThrough>>

\* The clock moves on by d seconds.
Tick(d, max) ==
    /\ now + d <= max
    /\ now' = now + d
    /\ UNCHANGED <<login_attempts, session, issued, resp, failed, loginAt, era,
                   stored, inflight, letThrough>>

\* ------------------------------------------------------- specifications
\* POST /login from one of `ips`; the collaborator is consulted for
\* well-formed requests only.
LoginFrom(ips, wellformed, others, outcomes) ==
    \E ip \in ips :
        \/ \E rq \in wellformed, out \in outcomes : Login(ip, rq, out)
        \/ \E rq \in others : Login(ip, rq, NoOutcome)

LoginStep ==
    LoginFrom({Client}, WellFormedRequests,
              LoginRequests \ WellFormedRequests, Outcomes)

ShortTick == \E d \in ShortSteps : Tick(d, MaxTime)

Next ==
    \/ LoginStep
    \/ GetAttendance
    \/ GetCgpa
    \/ GetCourses
    \/ Dashboard
    \/ Logout
    \/ Home
    \/ ShortTick

Spec == Init /\ [][Next]_vars

\* The same program over hours: the clock moves in long steps.
SessionLogin ==
    LoginFrom({Client}, WellFormedRequests,
              { rq \in MalformedRequests : rq.roll.kind = "nonstr" },
              { out \in Outcomes : out.kind # "raise" })

LongTick == \E d \in LongSteps : Tick(d, MaxLongTime)

NextSession ==
    \/ SessionLogin
    \/ GetAttendance
    \/ GetCgpa
    \/ GetCourses
    \/ Dashboard
    \/ Logout
    \/ Home
    \/ LongTick

SpecSession == Init /\ [][NextSession]_vars

\* The statistics of /attendance over all small attendance lists: the
\* states right after one successful login, then reads.
InitStats ==
    \E out \in WideOutcomes \cup {Success(<<Subject(100, 70)>>, {}, {}),
                                  Success(<<Subject(100, 90)>>, {}, {})} :
        LET rq == Request(TRUE, Roll(<<"2", "1", "I", "T", "0", "6", "6">>),
                          "secret", FALSE)
            r == LoginBody(rq, EmptySession, out)
        IN /\ r.status = 200
           /\ now = 0
           /\ login_attempts = [ip \in IPs |-> IF ip = Client THEN <<0>> ELSE <<>>]
           /\ session = r.sess
           /\ issued = 0
           /\ resp = [Response("login", Client, 200) EXCEPT
                         !.limiter = "pass", !.req = rq, !.msg = r.msg,
                         !.called = r.called]
           /\ failed = [ip \in IPs |-> <<>>]
           /\ loginAt = 0
           /\ era = "in"
           /\ stored = [cgpa_data |-> out.cgpa_data,
                        course_plan |-> out.course_plan]
           /\ inflight = [th \in Threads |-> IdleThread]
           /\ letThrough = [ip \in IPs |-> <<>>]

NextStats == GetAttendance

SpecStats == InitStats /\ [][NextStats]_vars

\* Logins of one address and the passing of more than one window of time.
UnblockLogin ==
    LoginFrom({Client}, WellFormedRequests, IncompleteRequests,
              { out \in Outcomes : out.kind # "raise" })

LateTick == \E d \in ShortSteps : Tick(d, MaxLateTime)

NextUnblock ==
    \/ UnblockLogin
    \/ LateTick

SpecUnblock == Init /\ [][NextUnblock]_vars

\* Logins of two addresses.
TwoLogin ==
    LoginFrom(IPs,
              { Request(FALSE, Roll(<<"2", "1", "I", "T", "0", "6", "6">>),
                        "secret", FALSE) },
              { Request(TRUE, Roll(<<" ", " ">>), "secret", FALSE) },
              { Outcome("str", "Invalid credentials", "none", <<>>, {}, {}) })

NextTwo ==
    \/ TwoLogin
    \/ ShortTick

SpecTwo == Init /\ [][NextTwo]_vars

\* Requests of one address handled by two threads, statement by statement.
NextThreads ==
    \/ \E th \in Threads, rq \in ThreadRequests : Arrive(th, Client, rq)
    \/ \E th \in Threads : ReadAttempts(th)
    \/ \E th \in Threads : AssignAttempts(th)
    \/ \E th \in Threads : CheckAttempts(th)
    \/ \E th \in Threads : AppendAttempt(th)
    \/ \E th \in Threads : RunHandler(th)
    \/ ShortTick

SpecThreads == Init /\ [][NextThreads]_vars

\* ---------------------------------------------------------------- claims
\* The step handles a POST /login (the clock stands still while a request
\* is handled, and resp then holds that request and its response).
LoginHandled == now' = now /\ resp'.route = "login"

\* The address's last five failed logins (answered 400, 401 or 500) and
\* the present moment lie within one span of less than 300 seconds.
FiveFailedWithinWindow(ip) ==
    /\ Len(failed[ip]) = 5
    /\ now - failed[ip][1] < 300

\* C1: after 5 failed login attempts from one address within 300 seconds,
\* the 6th attempt from that address inside the same window is rejected
\* with 429 whatever credentials it carries, calls no collaborator and
\* leaves the session as it was.
C1_SixthAttemptRejected ==
    [][(LoginHandled /\ FiveFailedWithinWindow(resp'.ip)) =>
              /\ resp'.status = 429
              /\ resp'.called = {}
              /\ flask_session' = flask_session]_vars

\* C1 witness: a well-formed request was answered 429 after five failures
\* of its address that are spread over time and within 300 seconds.
C1_Witness ==
    /\ resp.route = "login"
    /\ resp.status = 429
    /\ resp.req \in WellFormedRequests
    /\ FiveFailedWithinWindow(resp.ip)
    /\ failed[resp.ip][1] < failed[resp.ip][5]

\* C2: a /login request rejected by the limiter is not recorded: the
\* address's list then holds exactly the timestamps that were in it and are
\* newer than now - 300.
C2_RejectedNotRecorded ==
    [][(LoginHandled /\ resp'.status = 429) =>
              login_attempts'[resp'.ip] =
                  SelectSeq(login_attempts[resp'.ip],
                            LAMBDA a : a > now - 300)]_vars

\* C2 witness: a rejection after which the list holds five timestamps taken
\* at different times, all older than the rejected request.
C2_Witness ==
    /\ resp.route = "login"
    /\ resp.status = 429
    /\ Len(login_attempts[resp.ip]) = 5
    /\ login_attempts[resp.ip][1] < login_attempts[resp.ip][5]
    /\ login_attempts[resp.ip][5] < now

\* The roll number of the request does not match the pattern after
\* stripping (an absent or non-string roll number matches nothing).
NoPatternMatch(rq) ==
    \/ rq.roll.kind # "str"
    \/ ~RollMatch(Strip(rq.roll.chars))

\* C3 (as claimed): every /login request whose roll number does not match
\* the pattern gets 400, in every state of the rate-limit table and the
\* session, with no call of return_attendance and the session unchanged.
C3_AlwaysRejected400 ==
    [][(LoginHandled /\ NoPatternMatch(resp'.req)) =>
              /\ resp'.status = 400
              /\ "return_attendance" \notin resp'.called
              /\ flask_session' = flask_session]_vars

\* The request passes input validation: roll number and password present,
\* the stripped roll number matching the pattern.
PassesValidation(rq) ==
    /\ rq.roll.kind = "str"
    /\ RollMatch(Strip(rq.roll.chars))
    /\ rq.password # ""

FourValues == {"rollno", "attendance_data", "cgpa_data", "course_plan"}

\* C4: for a /login request that passes the limiter and input validation,
\* a string result gives 401 carrying that string and an unchanged
\* session; a tuple result gives success and stores rollno,
\* attendance_data, cgpa_data and course_plan; an exception of any
\* collaborator call gives a generic 500 and an unchanged session.
C4_OutcomeDecidedByCollaborator ==
    [][\A out \in Outcomes :
          (/\ LoginHandled
           /\ PassesValidation(resp'.req)
           /\ resp'.status # 429
           /\ Login(resp'.ip, resp'.req, out)) =>
              /\ out.kind = "str" =>
                    /\ resp'.status = 401
                    /\ resp'.msg = out.msg
                    /\ flask_session' = flask_session
              /\ out.kind = "tuple" =>
                    /\ resp'.status = 200
                    /\ FourValues \subseteq flask_session'.keys
                    /\ flask_session'.rollno = Strip(resp'.req.roll.chars)
                    /\ flask_session'.attendance_data = out.attendance_data
                    /\ flask_session'.cgpa_data = out.cgpa_data
                    /\ flask_session'.course_plan = out.course_plan
              /\ out.kind = "raise" =>
                    /\ resp'.status = 500
                    /\ resp'.msg = "An internal error occurred. Please try again later."
                    /\ flask_session' = flask_session]_vars

\* C4 witness: the last collaborator call raised during a login attempt on
\* a session that holds an earlier login's data; the answer was 500.
C4_Witness ==
    /\ resp.route = "login"
    /\ resp.status = 500
    /\ "return_cgpa" \in resp.called
    /\ flask_session.keys # {}
    /\ flask_session.rollno # Strip(resp.req.roll.chars)

\* The step handles a GET on `route`.
Handled(route) == now' = now /\ resp'.route = route

GatedRoutes == {"dashboard", "courses", "cgpa", "attendance"}

RedirectedHome(r) == r.status = 302 /\ r.location = "/"

LoggedIn(s) == "rollno" \in s.keys

\* C5: after GET /logout the session holds none of rollno, attendance_data,
\* cgpa_data, course_plan, and from then on every GET /dashboard is
\* answered with a redirect to '/' until a later successful login.
C5_LogoutClearsSession ==
    [][/\ Handled("logout") => flask_session'.keys \cap FourValues = {}
       /\ (Handled("dashboard") /\ era = "out") => RedirectedHome(resp')]_vars

\* C5 witness: a login, then a logout, then /dashboard answered with the
\* redirect.
C5_Witness ==
    /\ era = "out"
    /\ loginAt >= 0
    /\ resp.route = "dashboard"
    /\ RedirectedHome(resp)

\* C6: on a session with no successful login since its start or its last
\* logout a gated endpoint answers with a redirect to '/' and its handler
\* body does not run; on a session whose login is active (made since the
\* start or last logout and not older than the session lifetime) the gate
\* never redirects.
C6_GateRequiresActiveSession ==
    [][\A route \in GatedRoutes :
          Handled(route) =>
              /\ era # "in" =>
                    /\ RedirectedHome(resp')
                    /\ resp'.gate = "redirect"
                    /\ resp'.data = {}
                    /\ resp'.stats = NoStats
              /\ (era = "in" /\ now - loginAt <= 7200) =>
                    resp'.gate = "pass"]_vars

\* C6 witness: after a login and a logout, /attendance was stopped by the gate.
C6_Witness ==
    /\ era = "out"
    /\ loginAt >= 0
    /\ resp.route = "attendance"
    /\ resp.gate = "redirect"

\* C7 (as claimed): GET /attendance answers 404 both on a session that is
\* not logged in and on a logged-in session with empty attendance_data.
C7_NoSessionDataGives404 ==
    [][(/\ Handled("attendance")
        /\ \/ era # "in"
           \/ LoggedIn(flask_session) /\ flask_session.attendance_data = <<>>)
       => resp'.status = 404]_vars

\* C7 (amended): GET /attendance answers 404 on a logged-in session whose
\* stored attendance_data is empty; on a session that has not logged in or
\* has logged out it answers with the redirect to '/'.
C7_EmptyAttendanceGives404 ==
    [][Handled("attendance") =>
          /\ era # "in" => RedirectedHome(resp')
          /\ (LoggedIn(flask_session) /\ flask_session.attendance_data = <<>>)
                => resp'.status = 404]_vars

\* C7 witness: /attendance answered 404 on a logged-in session without
\* attendance records.
C7_Witness ==
    /\ resp.route = "attendance"
    /\ resp.status = 404
    /\ LoggedIn(flask_session)
    /\ flask_session.attendance_data = <<>>

\* C8 (as claimed): on a logged-in session /cgpa with empty cgpa_data and
\* /courses with empty course_plan answer 404, as /attendance does for
\* empty attendance_data.
C8_MissingDataGives404 ==
    [][/\ (Handled("cgpa") /\ LoggedIn(flask_session)
              /\ flask_session.cgpa_data = {}) => resp'.status = 404
       /\ (Handled("courses") /\ LoggedIn(flask_session)
              /\ flask_session.course_plan = {}) => resp'.status = 404
       /\ (Handled("attendance") /\ LoggedIn(flask_session)
              /\ flask_session.attendance_data = <<>>) => resp'.status = 404]_vars

\* C8 (amended): on a logged-in session only /attendance answers 404 for
\* empty data; /cgpa and /courses answer 200 with the stored mapping, also
\* when it is empty.
C8_OnlyAttendanceGives404 ==
    [][/\ (Handled("cgpa") /\ LoggedIn(flask_session)) =>
              resp'.status = 200 /\ resp'.data = flask_session.cgpa_data
       /\ (Handled("courses") /\ LoggedIn(flask_session)) =>
              resp'.status = 200 /\ resp'.data = flask_session.course_plan
       /\ (Handled("attendance") /\ LoggedIn(flask_session)
              /\ flask_session.attendance_data = <<>>) => resp'.status = 404]_vars

\* C8 witness: /courses answered 200 with an empty mapping on a logged-in
\* session.
C8_Witness ==
    /\ resp.route = "courses"
    /\ resp.status = 200
    /\ resp.data = {}
    /\ LoggedIn(flask_session)
    /\ flask_session.course_plan = {}

\* C9 (as claimed): more than 2 hours after the last successful login the
\* session grants no access, whatever remember_me was: the gated endpoints
\* redirect to '/'.
C9_SessionLivesAtMostTwoHours ==
    [][\A route \in GatedRoutes :
          (Handled(route) /\ era = "in" /\ now - loginAt > 7200) =>
              RedirectedHome(resp')]_vars

\* The percentage /attendance reports is below 75 (it reports 0 when the
\* total of hours is 0).
PercentageBelow75(H, P) == IF H = 0 THEN TRUE ELSE 100 * P < 75 * H

\* P attended hours out of H are at least 75%.
AtLeast75(H, P) == H > 0 /\ 100 * P >= 75 * H

\* n = ceil((0.75*H - P) / 0.25)
IsCeilOfNeed(n, H, P) ==
    /\ 25 * n >= 75 * H - 100 * P
    /\ 25 * (n - 1) < 75 * H - 100 * P

\* n is the smallest n >= 0 with (P+n)/(H+n) >= 75%
IsSmallestNeed(n, H, P) ==
    /\ n >= 0
    /\ AtLeast75(H + n, P + n)
    /\ \A m \in 0..(n - 1) : ~AtLeast75(H + m, P + m)

NeedDaysClaim(positiveOnly) ==
    LET H == SumHours(flask_session.attendance_data)
        P == SumPresent(flask_session.attendance_data)
    IN (/\ resp.route = "attendance"
        /\ resp.status = 200
        /\ P <= H
        /\ positiveOnly => H > 0
        /\ PercentageBelow75(H, P)) =>
           /\ resp.stats.bunkable_days = 0
           /\ IsCeilOfNeed(resp.stats.need_days, H, P)
           /\ IsSmallestNeed(resp.stats.need_days, H, P)

\* C10 (as claimed): for integer totals H and P, P <= H, and a percentage
\* below 75, /attendance reports bunkable_days = 0 and need_days =
\* ceil((0.75*H - P)/0.25), the smallest n >= 0 with (P+n)/(H+n) >= 75%.
C10_NeedDays == NeedDaysClaim(FALSE)

\* C10 (amended): the same for totals with H > 0.
C10_NeedDaysPositiveHours == NeedDaysClaim(TRUE)

\* C10 witness: H = 100, P = 70 reported with percentage 70, need_days 20.
C10_Witness ==
    /\ resp.route = "attendance"
    /\ resp.stats.total_days = 100
    /\ resp.stats.attended_days = 70
    /\ resp.stats.pct_num = 70 * resp.stats.pct_den
    /\ resp.stats.need_days = 20
    /\ resp.stats.bunkable_days = 0

\* b = floor((P - 0.75*H) / 0.75)
IsFloorOfBunkable(b, H, P) ==
    /\ 75 * b <= 100 * P - 75 * H
    /\ 75 * (b + 1) > 100 * P - 75 * H

\* b is the largest b >= 0 with P/(H+b) >= 75%
IsLargestBunkable(b, H, P) ==
    /\ b >= 0
    /\ AtLeast75(H + b, P)
    /\ ~AtLeast75(H + b + 1, P)

\* C11: for integer totals H > 0 and P <= H with a percentage at or above
\* 75, /attendance reports need_days = 0 and bunkable_days =
\* floor((P - 0.75*H)/0.75), the largest b >= 0 with P/(H+b) >= 75%.
C11_BunkableDays ==
    LET H == SumHours(flask_session.attendance_data)
        P == SumPresent(flask_session.attendance_data)
    IN (/\ resp.route = "attendance"
        /\ resp.status = 200
        /\ P <= H
        /\ H > 0
        /\ ~PercentageBelow75(H, P)) =>
           /\ resp.stats.need_days = 0
           /\ IsFloorOfBunkable(resp.stats.bunkable_days, H, P)
           /\ IsLargestBunkable(resp.stats.bunkable_days, H, P)

\* C11 witness: H = 100, P = 90 reported with percentage 90 and
\* bunkable_days 20.
C11_Witness ==
    /\ resp.route = "attendance"
    /\ resp.stats.total_days = 100
    /\ resp.stats.attended_days = 90
    /\ resp.stats.pct_num = 90 * resp.stats.pct_den
    /\ resp.stats.need_days = 0
    /\ resp.stats.bunkable_days = 20

\* C12: GET /attendance, /cgpa, /courses and /dashboard leave the session
\* and the rate-limit table unchanged, and /cgpa and /courses, when they
\* answer from the session, return exactly the cgpa_data and course_plan
\* stored by the most recent successful login, however many reads or failed
\* logins came in between.
C12_ReadsOnlyReExpose ==
    [][\A route \in GatedRoutes :
          Handled(route) =>
              /\ flask_session' = flask_session
              /\ login_attempts' = login_attempts
              /\ (route = "cgpa" /\ resp'.gate = "pass") =>
                    resp'.status = 200 /\ resp'.data = stored.cgpa_data
              /\ (route = "courses" /\ resp'.gate = "pass") =>
                    resp'.status = 200 /\ resp'.data = stored.course_plan]_vars

\* C12 witness: /courses returned the stored course plan after a failed
\* login that came later than the successful one.
C12_Witness ==
    /\ resp.route = "courses"
    /\ resp.gate = "pass"
    /\ resp.data = stored.course_plan
    /\ resp.data # {}
    /\ failed[Client] # <<>>
    /\ failed[Client][Len(failed[Client])] > loginAt

\* Helpers of C13.
Count(list, t) == Cardinality({i \in 1..Len(list) : list[i] = t})

InWindowFrom(list, t) ==
    Cardinality({i \in 1..Len(list) : list[i] >= t /\ list[i] < t + TIME_WINDOW})

NoneInFlight == \A th \in Threads : inflight[th].pc = "idle"

AtMostFivePerWindow(ip) ==
    \A i \in 1..Len(letThrough[ip]) :
        InWindowFrom(letThrough[ip], letThrough[ip][i]) <= MAX_ATTEMPTS

NoTimestampLost(ip) ==
    NoneInFlight =>
        \A i \in 1..Len(letThrough[ip]) :
            letThrough[ip][i] > now - TIME_WINDOW =>
                Count(login_attempts[ip], letThrough[ip][i])
                    = Count(letThrough[ip], letThrough[ip][i])

\* C13: in every 300-second window at most MAX_ATTEMPTS /login requests of
\* one address get past the limiter, also when the limiter's statements of
\* concurrently handled requests interleave; and no timestamp of a request
\* that got past is lost: once no request is in flight, each timestamp of
\* the trailing window is in the address's list as often as requests with
\* that timestamp got past.
C13_AtMostFiveUnderInterleaving ==
    \A ip \in IPs : AtMostFivePerWindow(ip) /\ NoTimestampLost(ip)

\* Helpers of C14: the oldest timestamp of a list, and the moment from which
\* the limiter accepts the address again when no more attempts are recorded.
Oldest(list) ==
    CHOOSE a \in {list[i] : i \in 1..Len(list)} :
        \A i \in 1..Len(list) : a <= list[i]

BlockedUntil(list, t) ==
    IF Exceeded(Pruned(list, t)) THEN Oldest(Pruned(list, t)) + TIME_WINDOW
    ELSE t

\* C14: time alone unblocks an address.  A /login request arriving more than
\* 300 seconds after the oldest timestamp still in the address's list is let
\* through by the limiter, and a request rejected with 429 adds no timestamp
\* and leaves the moment the block ends where it was.
C14_UnblockedByTimeAlone ==
    [][LoginHandled =>
          /\ (/\ login_attempts[resp'.ip] # <<>>
              /\ now > Oldest(login_attempts[resp'.ip]) + TIME_WINDOW)
                 => (resp'.limiter = "pass" /\ resp'.status # 429)
          /\ resp'.status = 429 =>
                 /\ \A i \in 1..Len(login_attempts'[resp'.ip]) :
                        \E j \in 1..Len(login_attempts[resp'.ip]) :
                            login_attempts'[resp'.ip][i]
                                = login_attempts[resp'.ip][j]
                 /\ BlockedUntil(login_attempts'[resp'.ip], now)
                        = BlockedUntil(login_attempts[resp'.ip], now)]_vars

\* C14 witness: the address failed five times at one moment, which blocks
\* it, and a request more than 300 seconds later was let through and is the
\* only one recorded.
C14_Witness ==
    /\ resp.route = "login"
    /\ resp.limiter = "pass"
    /\ Len(failed[Client]) = 5
    /\ failed[Client][1] = failed[Client][5]
    /\ now > failed[Client][5] + TIME_WINDOW
    /\ login_attempts[Client] = <<now>>

\* The client's last four failed logins and its last successful login all
\* lie less than 300 seconds back: five requests the limiter let through.
FourFailedAndOneSuccessWithinWindow ==
    /\ Len(failed[Client]) >= 4
    /\ failed[Client][Len(failed[Client]) - 3] > now - TIME_WINDOW
    /\ loginAt >= 0
    /\ loginAt > now - TIME_WINDOW

\* C15: a /login request the limiter lets through is recorded whatever
\* login() answers (200, 400, 401 or 500): the address's list becomes the
\* pruned list with the request's timestamp appended.  Hence five let-through
\* requests within 300 seconds, a successful login among them, make the
\* next request of the address a 429.
C15_EveryLetThroughRequestCounts ==
    [][LoginHandled =>
          /\ resp'.limiter = "pass" =>
                 /\ resp'.status \in {200, 400, 401, 500}
                 /\ login_attempts'[resp'.ip] =
                        Append(SelectSeq(login_attempts[resp'.ip],
                                         LAMBDA a : a > now - TIME_WINDOW),
                               now)
          /\ (resp'.ip = Client /\ FourFailedAndOneSuccessWithinWindow)
                 => resp'.status = 429]_vars

\* C15 witness: a 429 for the client whose five recorded attempts are four
\* failures and, earlier than the last of them, one successful login.
C15_Witness ==
    /\ resp.route = "login"
    /\ resp.status = 429
    /\ FourFailedAndOneSuccessWithinWindow
    /\ Len(failed[Client]) = 4
    /\ Len(login_attempts[Client]) = 5
    /\ \E i \in 1..5 : login_attempts[Client][i] = loginAt
    /\ loginAt < failed[Client][4]

\* Helpers of C16: the four values of a session are all there or all
\* missing; two sessions agree on them.
AllOrNothing(s) ==
    \/ s.keys \cap FourValues = {}
    \/ FourValues \subseteq s.keys

SameFourValues(s, t) ==
    /\ s.keys \cap FourValues = t.keys \cap FourValues
    /\ s.rollno = t.rollno
    /\ s.attendance_data = t.attendance_data
    /\ s.cgpa_data = t.cgpa_data
    /\ s.course_plan = t.course_plan

\* C16: the session's four values are all-or-nothing.  rollno is present
\* exactly when attendance_data, cgpa_data and course_plan are; a step
\* either leaves the four as they are, removes them all, or is a successful
\* login that writes all four from its own request and collaborator result;
\* a login that fails leaves the four values of the earlier login intact.
C16_SessionAllOrNothing ==
    [][/\ AllOrNothing(flask_session')
       /\ "rollno" \in flask_session'.keys
              <=> (FourValues \ {"rollno"}) \subseteq flask_session'.keys
       /\ \/ SameFourValues(flask_session', flask_session)
          \/ flask_session'.keys \cap FourValues = {}
          \/ /\ LoginHandled
             /\ resp'.status = 200
             /\ FourValues \subseteq flask_session'.keys
             /\ flask_session'.rollno = RollText(resp'.req)
             /\ \E out \in Outcomes :
                    /\ out.kind = "tuple"
                    /\ flask_session'.attendance_data = out.attendance_data
                    /\ flask_session'.cgpa_data = out.cgpa_data
                    /\ flask_session'.course_plan = out.course_plan
       /\ (LoginHandled /\ resp'.status # 200)
              => SameFourValues(flask_session', flask_session)]_vars

\* C16 witness: a well-formed login for another roll number failed (401 or
\* 500) while the session held an earlier login's four values, which are
\* still the ones that login stored.
C16_Witness ==
    /\ resp.route = "login"
    /\ resp.status \in {401, 500}
    /\ PassesValidation(resp.req)
    /\ FourValues \subseteq flask_session.keys
    /\ flask_session.rollno # RollText(resp.req)
    /\ flask_session.cgpa_data = stored.cgpa_data
    /\ flask_session.cgpa_data # {}

\* C17: the limiter works per address.  A /login request of one address
\* leaves the list of every other address as it is, and it is rejected
\* exactly when the address's own list holds MAX_ATTEMPTS or more timestamps
\* of the trailing 300 seconds, whatever the other lists hold.
C17_LimiterIsPerAddress ==
    [][LoginHandled =>
          /\ \A other \in IPs \ {resp'.ip} :
                 login_attempts'[other] = login_attempts[other]
          /\ resp'.status = 429
                 <=> Len(SelectSeq(login_attempts[resp'.ip],
                                   LAMBDA a : a > now - TIME_WINDOW))
                         >= MAX_ATTEMPTS]_vars

\* C17 witness: a request of the second address was let through and
\* recorded while the client's list is full of timestamps of the window,
\* and the client had sent its requests later than the second address its
\* earlier ones.
C17_Witness ==
    /\ resp.route = "login"
    /\ resp.ip # Client
    /\ resp.limiter = "pass"
    /\ Len(login_attempts[Client]) = MAX_ATTEMPTS
    /\ \A i \in 1..MAX_ATTEMPTS : login_attempts[Client][i] > now - TIME_WINDOW
    /\ Len(login_attempts[resp.ip]) = 2
    /\ login_attempts[resp.ip][1] < login_attempts[Client][1]
    /\ login_attempts[resp.ip][2] = now

====
